---- MODULE Spec2Model ----
(***************************************************************************)
(* The CRE 10-year return model of src/app.py: amortization_schedule, the  *)
(* year-by-year cash-flow loop, exit value, returns and the IRR metric.    *)
(*                                                                         *)
(* Numbers.  The program computes in IEEE doubles.  Here a number is a     *)
(* record [n, d]: an exact rational n/d (d > 0, lowest terms), or one of   *)
(* the IEEE special values the program can produce without raising:        *)
(*   +0 = [0, 1]   -0 = [0, -1]   +inf = [1, 0]   -inf = [-1, 0]           *)
(*   nan = [0, 0]                                                          *)
(* Finite arithmetic is exact (no rounding); the special values follow     *)
(* IEEE 754 as numpy applies it (division by zero yields inf or nan with a *)
(* warning, it does not raise).                                            *)
(*                                                                         *)
(* Line 19 of src/app.py (payment = npf.pmt(...)) is written at column 0;  *)
(* it is modelled as the statement of amortization_schedule's body that    *)
(* its neighbours make it.                                                 *)
(***************************************************************************)
EXTENDS Integers, Sequences, FiniteSets

(***************************************************************************)
(* Bounds of the model                                                     *)
(***************************************************************************)
\* The holding period / loan term in years.  The source fixes it at 10
\* (loan_term = 10, range(1, 11)); the model checks a shorter hold because
\* exact rationals over ten compounding periods exceed TLC's integers.
loan_term == 2
\* Largest term_years, amort_years and loan amount of a direct call of
\* amortization_schedule.
MaxTerm == 4
MaxAmort == 3
MaxLoan == 2

(***************************************************************************)
(* Numbers                                                                 *)
(***************************************************************************)
Abs(i) == IF i < 0 THEN -i ELSE i
Sgn(i) == IF i < 0 THEN -1 ELSE 1

RECURSIVE GCD(_, _)
GCD(a, b) == IF b = 0 THEN a ELSE GCD(b, a % b)

NaN == [n |-> 0, d |-> 0]
Zero == [n |-> 0, d |-> 1]
NegZero == [n |-> 0, d |-> -1]
One == [n |-> 1, d |-> 1]
Inf(s) == [n |-> s, d |-> 0]
ZeroS(s) == [n |-> 0, d |-> s]

IsNaN(a) == a.n = 0 /\ a.d = 0
IsInf(a) == a.n # 0 /\ a.d = 0
IsZero(a) == a.n = 0 /\ a.d # 0
IsFinite(a) == a.d # 0
\* 1 or -1 (the sign bit); 0 for nan
Sign(a) == IF a.n # 0 THEN Sgn(a.n) ELSE a.d

\* n/d in lowest terms, for n # 0 and d > 0
Norm(n, d) == LET g == GCD(Abs(n), d) IN [n |-> n \div g, d |-> d \div g]
\* the number n/d, for d > 0
Frac(n, d) == IF n = 0 THEN Zero ELSE Norm(n, d)
FromInt(i) == Frac(i, 1)

Neg(a) == IF a.n # 0 THEN [n |-> -a.n, d |-> a.d] ELSE [n |-> 0, d |-> -a.d]

Mul(a, b) ==
  IF IsNaN(a) \/ IsNaN(b) THEN NaN
  ELSE IF (IsInf(a) /\ IsZero(b)) \/ (IsZero(a) /\ IsInf(b)) THEN NaN
  ELSE IF IsInf(a) \/ IsInf(b) THEN Inf(Sign(a) * Sign(b))
  ELSE IF IsZero(a) \/ IsZero(b) THEN ZeroS(Sign(a) * Sign(b))
  ELSE LET g1 == GCD(Abs(a.n), b.d)
           g2 == GCD(Abs(b.n), a.d)
       IN  [n |-> (a.n \div g1) * (b.n \div g2), d |-> (a.d \div g2) * (b.d \div g1)]

Add(a, b) ==
  IF IsNaN(a) \/ IsNaN(b) THEN NaN
  ELSE IF IsInf(a) /\ IsInf(b) THEN (IF a.n = b.n THEN a ELSE NaN)
  ELSE IF IsInf(a) THEN a
  ELSE IF IsInf(b) THEN b
  ELSE IF IsZero(a) /\ IsZero(b) THEN (IF a.d = -1 /\ b.d = -1 THEN NegZero ELSE Zero)
  ELSE IF IsZero(a) THEN b
  ELSE IF IsZero(b) THEN a
  ELSE LET l == (a.d \div GCD(a.d, b.d)) * b.d
           s == a.n * (l \div a.d) + b.n * (l \div b.d)
       IN  Frac(s, l)

Sub(a, b) == Add(a, Neg(b))

Div(a, b) ==
  IF IsNaN(a) \/ IsNaN(b) THEN NaN
  ELSE IF (IsInf(a) /\ IsInf(b)) \/ (IsZero(a) /\ IsZero(b)) THEN NaN
  ELSE IF IsInf(a) \/ IsZero(b) THEN Inf(Sign(a) * Sign(b))
  ELSE IF IsInf(b) \/ IsZero(a) THEN ZeroS(Sign(a) * Sign(b))
  ELSE Mul(a, [n |-> Sgn(b.n) * b.d, d |-> Abs(b.n)])

\* a > b; False when either is nan
Gt(a, b) ==
  LET s == Sub(a, b) IN ~IsNaN(s) /\ ~IsZero(s) /\ Sign(s) = 1
\* a == b as the program compares floats (+0 == -0, nan # nan)
Eq(a, b) ==
  LET s == Sub(a, b) IN IsZero(s) \/ (IsInf(a) /\ a = b)
Ge(a, b) == Gt(a, b) \/ Eq(a, b)

\* t ** k for an integer k
RECURSIVE Pow(_, _)
Pow(t, k) ==
  IF k = 0 THEN One
  ELSE IF k < 0 THEN Div(One, Pow(t, -k))
  ELSE Mul(t, Pow(t, k - 1))

RECURSIVE Sum(_)
Sum(s) == IF s = <<>> THEN Zero ELSE Add(Sum(SubSeq(s, 1, Len(s) - 1)), s[Len(s)])

(***************************************************************************)
(* numpy_financial.pmt(rate, nper, pv), fv = 0, when = 'end' (0)           *)
(***************************************************************************)
\* a payment that ignores the interest: the rate = 0 branch taken always
pmtStraightLine(rate, nper, pv) == Neg(Div(pv, FromInt(nper)))

pmt(rate, nper, pv) ==
  LET temp == Pow(Add(One, rate), nper)
      mask == IsZero(rate)
      masked_rate == IF mask THEN One ELSE rate
      fact == IF mask THEN FromInt(nper)
              ELSE Div(Mul(Add(One, Mul(masked_rate, Zero)), Sub(temp, One)), masked_rate)
  IN  Neg(Div(Add(Zero, Mul(pv, temp)), fact))

\* the balance recorded without its floor
Max0Unfloored(balance) == balance

\* max(balance, 0): Python returns 0 only when 0 > balance
Max0(balance) == IF Gt(Zero, balance) THEN Zero ELSE balance

VARIABLES
  pc,                  \* the program's position
  ret,                 \* where amortization_schedule returns to
  inputs,              \* the sidebar inputs (lines 47-57)
  loan_amount, equity, \* lines 60-61
  args,                \* amortization_schedule's arguments
  payment,             \* amortization_schedule: the constant payment
  balance,             \* amortization_schedule: the running (unfloored) balance
  schedule,            \* the rows appended so far, then the returned schedule
  noi, noi_list, cf_list, dscr_list,                  \* lines 73-90
  exit_value, remaining_balance, net_sales_proceeds,  \* lines 96-98
  cashflows, irr_val, equity_multiple,                \* lines 104-106
  irr_metric                                          \* line 115

frame == <<args, payment, balance, schedule>>
acquisition == <<inputs, loan_amount, equity>>
yearly == <<noi, noi_list, cf_list, dscr_list>>
sale == <<exit_value, remaining_balance, net_sales_proceeds>>
returns == <<cashflows, irr_val, equity_multiple>>
app == <<acquisition, yearly, sale, returns, irr_metric>>
vars == <<pc, ret, frame, app>>

(***************************************************************************)
(* amortization_schedule(loan_amount, rate, amort_years, term_years)       *)
(***************************************************************************)
\* r = rate; n = amort_years; payment = npf.pmt(r, n, -loan_amount);
\* schedule = []; balance = loan_amount
AmortEntry ==
  /\ pc = "amort_entry"
  /\ payment' = pmt(args.rate, args.amort_years, Neg(args.loan_amount))
  /\ schedule' = <<>>
  /\ balance' = args.loan_amount
  /\ pc' = "amort_loop"
  /\ UNCHANGED <<ret, args, app>>

\* the body of the loop: the row appended, and the running balance after it
ScheduleRow(bal, r, pay) ==
  LET interest == Mul(bal, r)
      principal == Sub(pay, interest)
      newbal == Sub(bal, principal)
  IN  [payment |-> pay, interest |-> interest, principal |-> principal,
       balance |-> Max0(newbal), running |-> newbal]

\* one iteration of: for _ in range(term_years)
AmortLoop ==
  /\ pc = "amort_loop"
  /\ Len(schedule) < args.term_years
  /\ LET row == ScheduleRow(balance, args.rate, payment)
     IN  /\ balance' = row.running
         /\ schedule' = Append(schedule, [payment |-> row.payment, interest |-> row.interest,
                                          principal |-> row.principal, balance |-> row.balance])
  /\ UNCHANGED <<pc, ret, args, payment, app>>

\* return schedule
AmortReturn ==
  /\ pc = "amort_loop"
  /\ Len(schedule) >= args.term_years
  /\ pc' = ret
  /\ UNCHANGED <<ret, frame, app>>

(***************************************************************************)
(* The app (module level of src/app.py)                                    *)
(***************************************************************************)
\* number_input has no minimum: any integer
Prices == {-10, 0, 10, loan_term + 20}
Nois == {-1, 0, 1}
\* the sliders' ranges: growth 0-5 %, exit cap 4-9 %, LTV 0-0.9, interest 2-10 %
RentGrowths == {Zero, Frac(1, 20)}
ExitCaps == {Frac(1, 25), Frac(1, 20)}
Ltvs == {Zero, Frac(1, 2), Frac(9, 10)}
\* one rate: a second denominator takes the cash flows past TLC's integers
InterestRates == {Frac(1, 10)}
\* the selectbox [20, 25, 30]: each longer than the term
AmortChoices == {loan_term + 1, loan_term + 2}

Unset == <<>>

\* loan_amount = purchase_price * ltv; equity = purchase_price - loan_amount;
\* schedule = amortization_schedule(loan_amount, interest_rate, amort_years, loan_term)
Acquire ==
  /\ pc = "acquire"
  /\ loan_amount' = Mul(FromInt(inputs.purchase_price), inputs.ltv)
  /\ equity' = Sub(FromInt(inputs.purchase_price), loan_amount')
  /\ args' = [loan_amount |-> loan_amount', rate |-> inputs.interest_rate,
              amort_years |-> inputs.amort_years, term_years |-> loan_term]
  /\ pc' = "amort_entry"
  /\ UNCHANGED <<ret, inputs, payment, balance, schedule, yearly, sale, returns, irr_metric>>

\* noi_list = []; cf_list = []; dscr_list = []; noi = noi_year_1
YearsEntry ==
  /\ pc = "years_entry"
  /\ noi_list' = <<>>
  /\ cf_list' = <<>>
  /\ dscr_list' = <<>>
  /\ noi' = FromInt(inputs.noi_year_1)
  /\ pc' = "years"
  /\ UNCHANGED <<ret, frame, acquisition, sale, returns, irr_metric>>

\* growth applied in the first year too
GrowNoiEveryYear(n, year, rent_growth) == Mul(n, Add(One, rent_growth))

\* if year > 1: noi = noi * (1 + rent_growth)
GrowNoi(n, year, rent_growth) ==
  IF year > 1 THEN Mul(n, Add(One, rent_growth)) ELSE n

\* one iteration of: for year in range(1, 11)
YearStep ==
  /\ pc = "years"
  /\ Len(noi_list) < loan_term
  /\ LET year == Len(noi_list) + 1
         debt_service == schedule[year].payment
         cashflow == Sub(noi', debt_service)
     IN  /\ noi' = GrowNoi(noi, year, inputs.rent_growth)
         /\ noi_list' = Append(noi_list, noi')
         /\ cf_list' = Append(cf_list, cashflow)
         /\ dscr_list' = Append(dscr_list, Div(noi', debt_service))
  /\ UNCHANGED <<pc, ret, frame, acquisition, sale, returns, irr_metric>>

\* sale proceeds clamped at 0
NetSalesProceedsClamped(ev, rb) == Max0(Sub(ev, rb))

\* net_sales_proceeds = exit_value - remaining_balance
NetSalesProceeds(ev, rb) == Sub(ev, rb)

\* exit_value = noi_list[-1] / exit_cap; remaining_balance = schedule[-1]["balance"]
ExitValue ==
  /\ pc = "years"
  /\ Len(noi_list) >= loan_term
  /\ exit_value' = Div(noi_list[Len(noi_list)], inputs.exit_cap)
  /\ remaining_balance' = schedule[Len(schedule)].balance
  /\ net_sales_proceeds' = NetSalesProceeds(exit_value', remaining_balance')
  /\ pc' = "returns"
  /\ UNCHANGED <<ret, frame, acquisition, yearly, returns, irr_metric>>

\* [-equity] + cf_list[:-1] + [cf_list[-1] + net_sales_proceeds]
Cashflows(eq, cfs, nsp) ==
  <<Neg(eq)>> \o SubSeq(cfs, 1, Len(cfs) - 1) \o <<Add(cfs[Len(cfs)], nsp)>>

IsInflow(a) == Gt(a, Zero)
\* only the positive inflows summed
EquityMultiplePositiveInflows(cfs) ==
  Div(Sum(SelectSeq(Tail(cfs), IsInflow)), Neg(cfs[1]))

\* sum(cashflows[1:]) / (-cashflows[0])
EquityMultiple(cfs) == Div(Sum(Tail(cfs)), Neg(cfs[1]))

IsNonZero(a) == ~IsZero(a)
\* the number of sign changes along the non-zero entries
SignChanges(s) ==
  LET nz == SelectSeq(s, IsNonZero)
  IN  Cardinality({i \in 1 .. Len(nz) - 1 : Sign(nz[i]) # Sign(nz[i + 1])})

\* numpy_financial.irr: the outcomes a cash-flow vector can have.  np.roots
\* raises on inf or nan; without a sign change there is no positive real
\* root and the result is nan; a vector that sums to 0 has the root r = 0,
\* the one closest to zero (found exactly, or as a rate within rounding of
\* it); one sign change has exactly one positive root; with more the root
\* finder may or may not find a real one.
npf_irr(values) ==
  IF \E i \in 1 .. Len(values) : ~IsFinite(values[i]) THEN {"raise"}
  ELSE IF SignChanges(values) = 0 THEN {"nan"}
  ELSE IF IsZero(Sum(values)) THEN {"zero", "rate"}
  ELSE IF SignChanges(values) = 1 THEN {"rate"}
  ELSE {"rate", "nan"}

\* def irr(cashflows): try: return npf.irr(cashflows) except: return None
irr(cfs) == {IF v = "raise" THEN "None" ELSE v : v \in npf_irr(cfs)}

\* cashflows = ...; irr_val = irr(cashflows); equity_multiple = ...
Returns ==
  /\ pc = "returns"
  /\ cashflows' = Cashflows(equity, cf_list, net_sales_proceeds)
  /\ irr_val' \in irr(cashflows')
  /\ equity_multiple' = EquityMultiple(cashflows')
  /\ pc' = "output"
  /\ UNCHANGED <<ret, frame, acquisition, yearly, sale, irr_metric>>

\* Python truth value of irr_val: None and 0.0 are false, nan is true
Truthy(v) == v \notin {"None", "zero"}
\* f"{irr_val*100:,.2f}%"
Percent(v) == IF v = "nan" THEN "nan%" ELSE IF v = "zero" THEN "0.00%" ELSE "r.rr%"
\* f"{irr_val*100:,.2f}%" if irr_val else "N/A"
IrrMetric(v) == IF Truthy(v) THEN Percent(v) ELSE "N/A"

\* col1.metric("IRR", ...); the equity multiple, exit value and table follow
Output ==
  /\ pc = "output"
  /\ irr_metric' = IrrMetric(irr_val)
  /\ pc' = "done"
  /\ UNCHANGED <<ret, frame, acquisition, yearly, sale, returns>>

Init ==
  /\ pc = "acquire"
  /\ ret = "years_entry"
  /\ inputs \in [purchase_price : Prices, noi_year_1 : Nois, rent_growth : RentGrowths,
                 exit_cap : ExitCaps, ltv : Ltvs, interest_rate : InterestRates,
                 amort_years : AmortChoices]
  /\ loan_amount = Unset /\ equity = Unset
  /\ args = Unset /\ payment = Unset /\ balance = Unset /\ schedule = Unset
  /\ noi = Unset /\ noi_list = Unset /\ cf_list = Unset /\ dscr_list = Unset
  /\ exit_value = Unset /\ remaining_balance = Unset /\ net_sales_proceeds = Unset
  /\ cashflows = Unset /\ irr_val = "unset" /\ equity_multiple = Unset
  /\ irr_metric = "unset"

Next ==
  \/ Acquire \/ AmortEntry \/ AmortLoop \/ AmortReturn
  \/ YearsEntry \/ YearStep \/ ExitValue \/ Returns \/ Output
Spec == Init /\ [][Next]_vars

(***************************************************************************)
(* A direct call of amortization_schedule, with arguments of either sign   *)
(***************************************************************************)
SchedLoans == {FromInt(i) : i \in -1 .. MaxLoan}
SchedRates == {Frac(-1, 2), Zero, Frac(1, 10), Frac(1, 2)}
InitSched ==
  /\ pc = "amort_entry"
  /\ ret = "returned"
  /\ args \in [loan_amount : SchedLoans, rate : SchedRates,
               amort_years : -1 .. MaxAmort, term_years : -1 .. MaxTerm]
  /\ inputs = Unset /\ loan_amount = Unset /\ equity = Unset
  /\ payment = Unset /\ balance = Unset /\ schedule = Unset
  /\ noi = Unset /\ noi_list = Unset /\ cf_list = Unset /\ dscr_list = Unset
  /\ exit_value = Unset /\ remaining_balance = Unset /\ net_sales_proceeds = Unset
  /\ cashflows = Unset /\ irr_val = "unset" /\ equity_multiple = Unset
  /\ irr_metric = "unset"

NextSched == AmortEntry \/ AmortLoop \/ AmortReturn
SpecSched == InitSched /\ [][NextSched]_vars

(***************************************************************************)
(* Properties                                                              *)
(***************************************************************************)
\* the arguments the contract of amortization_schedule admits
ValidArgs ==
  /\ Ge(args.loan_amount, Zero) /\ Ge(args.rate, Zero)
  /\ args.amort_years > 0 /\ args.term_years > 0
Called == pc \in {"amort_loop", "returned"}
\* the recorded balance before period i
PrevBalance(i) == IF i = 1 THEN args.loan_amount ELSE schedule[i - 1].balance
\* balance[i-1] - (payment - balance[i-1] * rate)
Recurrence(i) ==
  Sub(PrevBalance(i), Sub(schedule[i].payment, Mul(PrevBalance(i), args.rate)))
Monotone ==
  \A i \in 1 .. Len(schedule) :
    /\ Ge(PrevBalance(i), schedule[i].balance)
    /\ Ge(schedule[i].balance, Zero)

\* C1 as stated: for valid arguments every recorded balance obeys
\* balance[i] = balance[i-1] - (payment - balance[i-1]*rate), and the
\* recorded balances are non-increasing and never negative, also when the
\* horizon is longer than the amortization length.
C1_ExactRecurrence ==
  (Called /\ ValidArgs) =>
    /\ \A i \in 1 .. Len(schedule) : Eq(schedule[i].balance, Recurrence(i))
    /\ Monotone

\* C1 amended: every recorded balance is the recurrence floored at 0,
\* balance[i] = max(0, balance[i-1] - (payment - balance[i-1]*rate)); the
\* unfloored recurrence holds for the periods up to the amortization
\* length; the recorded balances are non-increasing and never negative.
C1_FlooredRecurrence ==
  (Called /\ ValidArgs) =>
    /\ \A i \in 1 .. Len(schedule) :
         /\ Eq(schedule[i].balance,
               IF Gt(Zero, Recurrence(i)) THEN Zero ELSE Recurrence(i))
         /\ i <= args.amort_years => Eq(schedule[i].balance, Recurrence(i))
    /\ Monotone

C1_Witness ==
  /\ pc = "returned" /\ ValidArgs
  /\ Gt(args.loan_amount, Zero) /\ Gt(args.rate, Zero)
  /\ args.term_years > args.amort_years + 1
  /\ Len(schedule) = args.term_years
  /\ Gt(Zero, balance)

\* C2: for rate > 0 and amort_years > 0 the payment fully amortizes the
\* loan: with the horizon equal to the amortization length the balance
\* after the last period is 0 (the running balance too, not only its floor)
\* and, for a positive principal, positive after every earlier period.
C2_FullyAmortizes ==
  (/\ pc = "returned" /\ Gt(args.rate, Zero)
   /\ args.amort_years > 0 /\ args.term_years = args.amort_years) =>
    /\ Eq(schedule[args.amort_years].balance, Zero)
    /\ Eq(balance, Zero)
    /\ Gt(args.loan_amount, Zero) =>
         \A i \in 1 .. args.amort_years - 1 : Gt(schedule[i].balance, Zero)

C2_Witness ==
  /\ pc = "returned" /\ Gt(args.rate, Zero) /\ Gt(args.loan_amount, Zero)
  /\ args.amort_years = MaxAmort /\ args.term_years = MaxAmort
  /\ Len(schedule) = MaxAmort
  /\ Gt(schedule[MaxAmort - 1].balance, Zero)

\* C6: amortization_schedule fails with InvalidInput, producing no
\* schedule, when principal < 0, rate < 0, amortization_periods <= 0 or
\* horizon_periods <= 0: no call with such arguments returns.
C6_InvalidInputRejected ==
  pc = "returned" =>
    ~(\/ Gt(Zero, args.loan_amount) \/ Gt(Zero, args.rate)
      \/ args.amort_years <= 0 \/ args.term_years <= 0)

Projected == pc \in {"returns", "output", "done"}
Summarized == pc \in {"output", "done"}

C4_CashflowVector ==
  Summarized =>
    LET n == Len(cf_list) IN
    /\ Len(cashflows) = n + 1
    /\ cashflows[1] = Neg(equity)
    /\ \A k \in 1 .. n - 1 :
         cashflows[k + 1] = Sub(noi_list[k], schedule[k].payment)
    /\ Eq(net_sales_proceeds, Sub(exit_value, schedule[Len(schedule)].balance))
    /\ Gt(Zero, Sub(exit_value, schedule[Len(schedule)].balance))
         => Gt(Zero, net_sales_proceeds)
    /\ Eq(cashflows[n + 1],
          Add(Sub(noi_list[n], schedule[n].payment), net_sales_proceeds))

C4_Witness ==
  /\ pc = "done" /\ Len(cashflows) = loan_term + 1
  /\ Gt(Zero, net_sales_proceeds)
  /\ ~IsZero(cashflows[2])

\* C5: a year whose debt service is 0 has its DSCR signalled or flagged
\* undefined, never silently infinity or nan.
C5_DscrNeverInfOrNan ==
  Projected =>
    \A k \in 1 .. Len(dscr_list) :
      IsZero(schedule[k].payment) => IsFinite(dscr_list[k])

\* C7: no summary is produced with equity <= 0 or exit_cap <= 0: in every
\* summary the first cash flow is strictly negative and the equity
\* multiple's denominator is not zero.
C7_SummaryNeedsPositiveEquity ==
  Summarized =>
    /\ Gt(equity, Zero) /\ Gt(inputs.exit_cap, Zero)
    /\ Gt(Zero, cashflows[1])
    /\ ~IsZero(Neg(cashflows[1]))

\* C8: when the IRR is undefined (here: no sign change in the cash flows)
\* the summary is still produced and the IRR is reported as the explicit
\* undefined outcome.
C8_UndefinedIrrReported ==
  (pc = "done" /\ SignChanges(cashflows) = 0) =>
    /\ irr_metric = "N/A"
    /\ IsFinite(exit_value)

\* C9: equity multiple = (sum of the cash flows at index >= 1, negative
\* ones included) / equity, and it is 1 when they sum to the equity.
C9_EquityMultiple ==
  (Summarized /\ ~IsZero(equity)) =>
    LET total == Add(Sum(cf_list), net_sales_proceeds) IN
    /\ Eq(equity_multiple, Div(total, equity))
    /\ Eq(total, equity) => equity_multiple = One

C9_Witness ==
  /\ pc = "done" /\ Gt(equity, Zero)
  /\ \E k \in 2 .. Len(cashflows) - 1 : Gt(Zero, cashflows[k])
  /\ Gt(cashflows[Len(cashflows)], Zero)
\* the round trip: the inflows sum to the equity and the multiple is 1
C9_RoundTrip ==
  /\ pc = "done" /\ Gt(equity, Zero)
  /\ Eq(Sum(Tail(cashflows)), equity) /\ equity_multiple = One

\* C10: the IRR metric is "N/A" exactly when the IRR is undefined (None or
\* nan); a defined IRR, 0 included, is shown as a percentage.
C10_NotAvailableIffUndefined ==
  pc = "done" => (irr_metric = "N/A" <=> irr_val \in {"None", "nan"})
====
